---- MODULE Spec2Model ----
(***************************************************************************)
(* A model of pyLDAP's LDAPClient object (src/ldapclient.c): one client    *)
(* session, the transport handle it owns, and the operations Python code   *)
(* can invoke on it.  The libldap calls are the environment: each returns  *)
(* a status chosen by the server/transport, and the model records every    *)
(* call the last operation made.                                           *)
(***************************************************************************)
EXTENDS Integers, Sequences, FiniteSets, TLC

(* ------------------------------ bounds -------------------------------- *)

\* ldap_initialize calls (handles established) over one session's lifetime.
MaxConnects == 2
\* ldap_unbind_ext_s calls over one session's lifetime.
MaxRelease == 2
\* Messages in one search response, when the search pipeline is run alone.
MaxMsgs == 3
\* Largest attribute count of a constructed entry.
MaxAttrs == 1
\* References to None the interpreter holds when the session is created.
NoneRefs == 3

(* --------------------------- libldap values --------------------------- *)

LDAP_SUCCESS == 0
LDAP_NO_SUCH_OBJECT == 32
LDAP_SERVER_DOWN == 0 - 1
LDAP_PARAM_ERROR == 0 - 9
LDAP_SIZELIMIT_EXCEEDED == 4

\* Status codes a libldap call other than the search can hand back: its
\* callers only test the status against LDAP_SUCCESS, and LDAP_SERVER_DOWN
\* stands for every failure.
RC == {LDAP_SUCCESS, LDAP_SERVER_DOWN}

\* Status codes of ldap_search_ext_s: success, "no such object", another
\* status the server answered with, and a failure to reach the server.
SearchRC == RC \cup {LDAP_NO_SUCH_OBJECT, LDAP_SIZELIMIT_EXCEEDED}

\* ldap_msgtype values of the messages of a search response.
LDAP_RES_SEARCH_ENTRY == 100
LDAP_RES_SEARCH_REFERENCE == 115
LDAP_RES_SEARCH_RESULT == 101

(* ------------------------------- URIs --------------------------------- *)

\* The uri argument of LDAPClient(uri, tls); "NULL" is an omitted argument.
URIs == {"NULL", "ldaps://host/", "ldap://a b/", "http://host/"}

\* The strings assigned to the writable member uri.
AssignedURIs == {"ldaps://host/"}

\* ldap_url_parse: the scheme of the parsed URL (lud_scheme is the canonical
\* lower-case scheme name), or "error" when the URL is rejected.
ldap_url_parse(uristr) ==
    CASE uristr = "ldap://localhost:389/" -> "ldap"
      [] uristr = "ldaps://host/"         -> "ldaps"
      [] uristr = "ldap://a b/"           -> "ldap"
      [] OTHER                            -> "error"

\* ldap_initialize: the status for the uri string.  The empty string gives a
\* handle on the default server; a host name that holds a space passes
\* ldap_url_parse and is refused here, and *ldp is then NULL.
ldap_initialize(uristr) ==
    IF uristr \in {"", "ldap://localhost:389/", "ldaps://host/"}
    THEN LDAP_SUCCESS ELSE LDAP_PARAM_ERROR

(* ------------------------------ state --------------------------------- *)

VARIABLES
    phase,      \* "new" | "ready" | "no_object" | "destroyed" | "crashed"
    uri,        \* self->uri
    ld,         \* self->ld: 0 is NULL, h > 0 is the h-th handle ldap_initialize made
    connected,  \* self->connected (0 | 1)
    tls,        \* self->tls (0 | 1)
    nhandles,   \* handles ldap_initialize has established so far
    released,   \* released[h]: ldap_unbind_ext_s calls made on handle h
    noneRefs,   \* the reference count of None
    lastOp,     \* the operation that produced this state
    pre,        \* the session fields as they were when lastOp was invoked
    inp,        \* what the caller and the transport fed lastOp
    calls,      \* the libldap calls lastOp made, in order
    temps,      \* the temporaries lastOp acquired and what became of them
    result      \* what lastOp returned to Python

vars == <<phase, uri, ld, connected, tls, nhandles, released, noneRefs,
          lastOp, pre, inp, calls, temps, result>>

Handles == 1..MaxConnects

\* A handle is valid when ldap_initialize made it and no unbind released it.
HandleValid(h) == h \in 1..nhandles /\ released[h] = 0

\* The object exists and its process runs: after LDAPClient_new ("new") and
\* after an LDAPClient_init that succeeded ("ready").
Live == phase \in {"new", "ready"}

\* The ldap_unbind_ext_s calls made so far.
RECURSIVE UnbindsUpTo(_)
UnbindsUpTo(h) == IF h = 0 THEN 0 ELSE released[h] + UnbindsUpTo(h - 1)
Unbinds == UnbindsUpTo(MaxConnects)

\* The session fields (the LDAPClient struct).
Session == [uri |-> uri, ld |-> ld, connected |-> connected, tls |-> tls]

(* ------------------------- values returned ---------------------------- *)

NoEntry == [pos |-> 0, nattrs |-> 0]

\* kind: "none" (Py_None), "entry", "list", "str", "error" (NULL with the
\* exception exc set), "null" (NULL with no exception set), "crash".
Ret(kind) == [kind |-> kind, exc |-> "", entry |-> NoEntry, list |-> <<>>, str |-> ""]
PyNone == Ret("none")
Raise(exc) == [Ret("error") EXCEPT !.exc = exc]
RetEntry(e) == [Ret("entry") EXCEPT !.entry = e]
RetList(l) == [Ret("list") EXCEPT !.list = l]
RetStr(s) == [Ret("str") EXCEPT !.str = s]
Crash == Ret("crash")

\* arg: the caller's argument; rc: the status the transport returned to the
\* call that decided the outcome; stream: the messages of a search response.
\* tgiven, zgiven: the timeout and sizelimit the caller of search passed (0
\* when omitted); timeout, sizelimit: the limits searching was called with;
\* flag: the tls flag the constructor was called with.
\* failAt: the message at which PyList_Append failed (0: none).
\* kwds: what the kwds parameter of del_entry / get_entry held ("null" for
\* every other call).
NoInput == [arg |-> "", rc |-> LDAP_SUCCESS, stream |-> <<>>, tgiven |-> 0, zgiven |-> 0,
            timeout |-> 0, sizelimit |-> 0, flag |-> 0, failAt |-> 0, kwds |-> "null"]

\* One temporary of a call: acq = 1 when it was acquired, rel the number of
\* times it was released, returned when it was handed to the caller.
Temp(acq, rel, returned) == [acq |-> acq, rel |-> rel, returned |-> returned]

\* The temporaries of searching: the timeval, the result list, the response
\* message set; built: the messages LDAPEntry_FromLDAPMessage was called on.
NoTemps == [timelimit |-> Temp(0, 0, FALSE), entrylist |-> Temp(0, 0, FALSE),
            res |-> Temp(0, 0, FALSE), built |-> {}]

\* One libldap call: the function, the handle it was made on, its status.
Call(fn, h, rc) == [fn |-> fn, h |-> h, rc |-> rc]

\* connect, close, del_entry and get_entry return Py_None without Py_INCREF:
\* the caller's release of the result takes one reference of None away.
BorrowedNone(op, res) ==
    res.kind = "none" /\ op \in {"connect", "close", "deleteEntry", "getEntry"}

\* The reference count of None after op returned res.
NoneLeft(op, res) == IF BorrowedNone(op, res) THEN noneRefs - 1 ELSE noneRefs

\* The interpreter aborts in none_dealloc when the count reaches zero.
PhaseAfter(op, res, ph) == IF NoneLeft(op, res) = 0 THEN "crashed" ELSE ph

\* What the caller is left with.
Delivered(op, res) == IF NoneLeft(op, res) = 0 THEN Crash ELSE res

\* Bookkeeping common to every operation.
RecordT(op, in, cs, res, t) ==
    /\ lastOp' = op
    /\ pre' = Session
    /\ inp' = in
    /\ calls' = cs
    /\ temps' = t
    /\ noneRefs' = NoneLeft(op, res)
    /\ result' = Delivered(op, res)

\* The same for an operation that acquires no temporary.
Record(op, in, cs, res) == RecordT(op, in, cs, res, NoTemps)

(* ---------------------------- construction ---------------------------- *)

\* LDAPClient_new.  allocOk: tp_alloc returned an object; when it did not,
\* the stores to self->connected and self->tls go through a null pointer.
\* uriOk: PyUnicode_FromString("") returned a string; when it did not, the
\* object is dropped and NULL returned with the MemoryError set.
Init ==
    /\ \E allocOk \in BOOLEAN, uriOk \in BOOLEAN :
         /\ ~allocOk => uriOk
         /\ phase = IF ~allocOk THEN "crashed" ELSE IF ~uriOk THEN "no_object" ELSE "new"
         /\ result = IF ~allocOk THEN Crash ELSE IF ~uriOk THEN Raise("MemoryError")
                      ELSE PyNone
    /\ uri = ""
    /\ ld = 0
    /\ connected = 0
    /\ tls = 0
    /\ nhandles = 0
    /\ released = [h \in Handles |-> 0]
    /\ noneRefs = NoneRefs
    /\ lastOp = "new"
    /\ pre = [uri |-> "", ld |-> 0, connected |-> 0, tls |-> 0]
    /\ inp = NoInput
    /\ calls = <<>>
    /\ temps = NoTemps

\* LDAPClient_init without the ldaps rule.
InitTLS_AsRequested(scheme, tlsreq) == tlsreq

\* The tls field LDAPClient_init stores for a parsed scheme and requested flag.
InitTLS(scheme, tlsreq) == IF scheme = "ldaps" THEN 0 ELSE tlsreq

\* The uri field when PyUnicode_FromString failed in LDAPClient_init: a null
\* pointer.
NullUri == "<null>"

\* LDAPClient_init(uri, tls): tp_init, run by LDAPClient(...) on the object
\* LDAPClient_new made and callable again as __init__ on a live object.
\* A failure before the uri is stored leaves the object as it was.  The
\* failures are tried with the tls flag omitted, and the failure to store
\* the uri with the default uri: neither argument changes their outcome.
LDAPClient_init ==
    /\ Live
    /\ \/ /\ Record("init", [NoInput EXCEPT !.arg = "unparsable"], <<>>, Raise("TypeError"))
          /\ UNCHANGED <<phase, uri, connected, tls>>
       \/ \E uriarg \in URIs, tlsreq \in {0, 1} :
            LET uristr == IF uriarg = "NULL" THEN "ldap://localhost:389/" ELSE uriarg
                scheme == ldap_url_parse(uristr)
                in == [NoInput EXCEPT !.arg = uriarg, !.flag = tlsreq]
            IN  IF scheme = "error"
                THEN /\ tlsreq = 0
                     /\ UNCHANGED <<phase, uri, connected, tls>>
                     /\ Record("init", in, <<>>, Raise("UrlError"))
                ELSE \/ /\ phase' = "ready"
                        /\ uri' = uristr
                        /\ connected' = 0
                        /\ tls' = InitTLS(scheme, tlsreq)
                        /\ Record("init", in, <<>>, PyNone)
                     \/ /\ uriarg = "NULL" /\ tlsreq = 0
                        /\ uri' = NullUri
                        /\ UNCHANGED <<phase, connected, tls>>
                        /\ Record("init", in, <<>>, Raise("MemoryError"))
    /\ UNCHANGED <<ld, nhandles, released>>

\* Assignment to the member uri (LDAPClient_members: not read-only).
LDAPClient_members ==
    /\ Live
    /\ \E u \in AssignedURIs :
         /\ uri' = u
         /\ Record("setUri", [NoInput EXCEPT !.arg = u], <<>>, PyNone)
    /\ UNCHANGED <<phase, ld, connected, tls, nhandles, released>>

\* LDAPClient_dealloc: drops the uri and frees the object; no libldap call.
LDAPClient_dealloc ==
    /\ Live
    /\ phase' = "destroyed"
    /\ Record("dealloc", NoInput, <<>>, PyNone)
    /\ UNCHANGED <<uri, ld, connected, tls, nhandles, released>>

(* ------------------------------ connect ------------------------------- *)

\* ldap_tls_inplace on the handle ldap_initialize has just made: no
\* connection is open yet, so no TLS layer is installed.
ldap_tls_inplace(h) == 0

\* LDAPClient_Connect without the StartTLS step.
NeedStartTLS_Never(t, h) == FALSE

\* Whether LDAPClient_Connect performs the StartTLS handshake.
NeedStartTLS(t, h) == t = 1 /\ ldap_tls_inplace(h) = 0

\* The bind call LDAPClient_Connect issues for the given mechanism.
BindFn(mech) == IF mech # "NULL" THEN "ldap_sasl_interactive_bind_s" ELSE "ldap_sasl_bind_s"

\* A connect that sets connected whatever the bind returned.
ConnectedAfterBind_Always(old, rc) == 1

\* The connected field after the bind returned rc.
ConnectedAfterBind(old, rc) == IF rc = LDAP_SUCCESS THEN 1 ELSE old

\* The mechanism argument of connect; "NULL" is an omitted one.
Mechs == {"NULL", "DIGEST-MD5"}

\* LDAPClient_Connect(binddn, password, mechanism, ...).  The call returns
\* early, before any libldap call, when the arguments do not parse or the
\* uri cannot be copied (PyObject2char on the null uri a failed LDAPClient_init
\* left either returns NULL or goes through it).  The status of ldap_initialize is not looked at:
\* when it failed, self->ld is NULL, ldap_set_option sets the global default
\* and the next call on the handle goes through the null pointer.  The call
\* returns after the StartTLS step when create_sasl_defaults fails.
LDAPClient_Connect ==
    /\ Live
    /\ \/ /\ Record("connect", [NoInput EXCEPT !.arg = "unparsable"], <<>>,
                   Raise("AttributeError"))
          /\ UNCHANGED <<phase, ld, connected, nhandles>>
       \/ /\ uri = NullUri
          /\ \/ /\ Record("connect", NoInput, <<>>, Ret("null"))
                /\ UNCHANGED phase
             \/ /\ Record("connect", NoInput, <<>>, Crash)
                /\ phase' = "crashed"
          /\ UNCHANGED <<ld, connected, nhandles>>
       \/ /\ uri # NullUri
          /\ ldap_initialize(uri) # LDAP_SUCCESS
          /\ \E mech \in Mechs :
              LET in == [NoInput EXCEPT !.arg = mech, !.rc = ldap_initialize(uri)]
                  c0 == <<Call("ldap_initialize", 0, ldap_initialize(uri)),
                          Call("ldap_set_option", 0, LDAP_SUCCESS)>>
              IN  /\ ld' = 0
                  /\ UNCHANGED <<connected, nhandles>>
                  /\ \/ /\ tls = 0 /\ mech # "NULL"
                        /\ Record("connect", in, c0, Raise("MemoryError"))
                        /\ UNCHANGED phase
                     \/ /\ Record("connect", in, c0, Crash)
                        /\ phase' = "crashed"
       \/ /\ uri # NullUri
          /\ ldap_initialize(uri) = LDAP_SUCCESS
          /\ nhandles < MaxConnects
          /\ \E mech \in Mechs :
              LET h == nhandles + 1
                  in == [NoInput EXCEPT !.arg = mech]
                  c0 == <<Call("ldap_initialize", h, LDAP_SUCCESS),
                          Call("ldap_set_option", h, LDAP_SUCCESS)>>
                  Bind(c1) ==
                      \/ /\ mech # "NULL"
                         /\ Record("connect", in, c1, Raise("MemoryError"))
                         /\ UNCHANGED <<phase, connected>>
                      \/ \E bindrc \in RC :
                           LET res == IF bindrc # LDAP_SUCCESS
                                      THEN Raise("LDAPError") ELSE PyNone
                           IN  /\ connected' = ConnectedAfterBind(connected, bindrc)
                               /\ phase' = PhaseAfter("connect", res, phase)
                               /\ Record("connect", [in EXCEPT !.rc = bindrc],
                                         Append(c1, Call(BindFn(mech), h, bindrc)), res)
              IN
              /\ nhandles' = h
              /\ ld' = h
              /\ IF NeedStartTLS(tls, h)
                 THEN \E tlsrc \in RC :
                        LET c1 == Append(c0, Call("ldap_start_tls_s", h, tlsrc))
                        IN  IF tlsrc # LDAP_SUCCESS
                            THEN /\ Record("connect", [in EXCEPT !.rc = tlsrc], c1,
                                           Raise("LDAPError"))
                                 /\ UNCHANGED <<phase, connected>>
                            ELSE Bind(c1)
                 ELSE Bind(c0)
    /\ UNCHANGED <<uri, tls, released>>

(* ------------------------------- close -------------------------------- *)

\* The connected field after ldap_unbind_ext_s returned rc.
ConnectedAfterUnbind(old, rc) == IF rc = LDAP_SUCCESS THEN 0 ELSE old

\* LDAPClient_Close.  ldap_unbind_ext_s destroys the handle whatever status
\* it returns; called on a handle already destroyed it is a double free,
\* which either aborts the process or goes through.
LDAPClient_Close ==
    /\ Live
    /\ IF connected = 0
       THEN /\ Record("close", NoInput, <<>>, PyNone)
            /\ phase' = PhaseAfter("close", PyNone, phase)
            /\ UNCHANGED <<connected, released>>
       ELSE /\ Unbinds < MaxRelease
            /\ \E rc \in RC, abort \in BOOLEAN :
                LET res == IF rc # LDAP_SUCCESS THEN Raise("LDAPError") ELSE PyNone
                IN
                /\ abort => ~HandleValid(ld)
                /\ released' = [released EXCEPT ![ld] = @ + 1]
                /\ IF abort
                   THEN /\ phase' = "crashed"
                        /\ UNCHANGED connected
                        /\ Record("close", NoInput, <<Call("ldap_unbind_ext_s", ld, rc)>>, Crash)
                   ELSE /\ phase' = PhaseAfter("close", res, phase)
                        /\ connected' = ConnectedAfterUnbind(connected, rc)
                        /\ Record("close", [NoInput EXCEPT !.rc = rc],
                                  <<Call("ldap_unbind_ext_s", ld, rc)>>, res)
    /\ UNCHANGED <<uri, ld, tls, nhandles>>

(* ------------------------------- delete ------------------------------- *)

\* A libldap call on self->ld while the handle is already destroyed is a use
\* after free: the process may abort there.
StaleAbortT(op, in, fn, t) ==
    /\ ~HandleValid(ld)
    /\ phase' = "crashed"
    /\ RecordT(op, in, <<Call(fn, ld, LDAP_SERVER_DOWN)>>, Crash, t)

StaleAbort(op, in, fn) == StaleAbortT(op, in, fn, NoTemps)

\* del_entry and get_entry are registered METH_VARARGS, so they are called
\* with (self, args), yet they are defined with a third parameter kwds and
\* hand it to PyArg_ParseTupleAndKeywords.  What kwds holds is whatever the
\* caller left in its place: NULL ("null", the parse then looks at args
\* alone), a pointer to an object that is no acceptable keyword dictionary
\* ("object", the parse fails), or a pointer the parse cannot read ("wild",
\* the process dies).
Kwds == {"null", "object", "wild"}

\* The outcome of the parse when kwds is not NULL: no libldap call is made.
BadKwds(op, in, kwds) ==
    \/ /\ kwds = "object"
       /\ Record(op, in, <<>>, Raise("AttributeError"))
       /\ UNCHANGED phase
    \/ /\ kwds = "wild"
       /\ Record(op, in, <<>>, Crash)
       /\ phase' = "crashed"

\* The DN arguments of del_entry / get_entry.  A null char* ("NULL" below)
\* can reach LDAPClient_DelEntryStringDN only from a C caller.
DNs == {"", "cn=a,dc=x"}

\* A delete that sends its request before it looks at connected.
LDAPClient_DelEntryStringDN_RequestFirst(conn, h, dnstr, rc) ==
    IF conn = 0
    THEN [ret |-> Raise("NotConnected"), calls |-> <<Call("ldap_delete_ext_s", h, rc)>>]
    ELSE [ret |-> IF rc # LDAP_SUCCESS THEN Raise("LDAPError") ELSE PyNone,
          calls |-> <<Call("ldap_delete_ext_s", h, rc)>>]

\* LDAPClient_DelEntryStringDN(self, dnstr) with the transport answering rc:
\* [ret |-> what it hands back, calls |-> the libldap calls it made].
LDAPClient_DelEntryStringDN(conn, h, dnstr, rc) ==
    IF conn = 0
    THEN [ret |-> Raise("NotConnected"), calls |-> <<>>]
    ELSE IF dnstr # "NULL"
    THEN [ret |-> IF rc # LDAP_SUCCESS THEN Raise("LDAPError") ELSE PyNone,
          calls |-> <<Call("ldap_delete_ext_s", h, rc)>>]
    ELSE [ret |-> PyNone, calls |-> <<>>]

\* LDAPClient_DelEntry(dn), for dn among D: parses its argument first ("s":
\* a str, never a null pointer), then deletes.
DelEntry(D) ==
    /\ Live
    /\ \/ /\ Record("deleteEntry", [NoInput EXCEPT !.arg = "unparsable"], <<>>,
                   Raise("AttributeError"))
          /\ UNCHANGED phase
       \/ \E dnstr \in D, kwds \in Kwds \ {"null"} :
            BadKwds("deleteEntry", [NoInput EXCEPT !.arg = dnstr, !.kwds = kwds], kwds)
       \/ \E dnstr \in D, rc \in RC :
            LET r == LDAPClient_DelEntryStringDN(connected, ld, dnstr, rc)
                in == [NoInput EXCEPT !.arg = dnstr,
                                      !.rc = IF r.calls = <<>> THEN LDAP_SUCCESS ELSE rc]
            IN  \/ /\ Record("deleteEntry", in, r.calls, r.ret)
                   /\ phase' = PhaseAfter("deleteEntry", r.ret, phase)
                \/ /\ r.calls # <<>>
                   /\ StaleAbort("deleteEntry", in, "ldap_delete_ext_s")
    /\ UNCHANGED <<uri, ld, connected, tls, nhandles, released>>

(* ------------------------------- search ------------------------------- *)

\* The messages a search response can hold.  built is FALSE when
\* LDAPEntry_FromLDAPMessage returns NULL for the message.
Messages ==
    [type : {LDAP_RES_SEARCH_ENTRY}, nattrs : 0..MaxAttrs, built : {TRUE}]
    \cup [type : {LDAP_RES_SEARCH_ENTRY}, nattrs : {0}, built : {FALSE}]
    \cup [type : {LDAP_RES_SEARCH_REFERENCE, LDAP_RES_SEARCH_RESULT}, nattrs : {0},
          built : {TRUE}]

StreamsUpTo(n) == UNION {[1..k -> Messages] : k \in 0..n}
Streams == StreamsUpTo(MaxMsgs)
\* Within a whole session's life the responses tried are the empty one and
\* one entry with attributes.
SessionStreams ==
    {st \in StreamsUpTo(1) :
        \A i \in 1..Len(st) :
            /\ st[i].type = LDAP_RES_SEARCH_ENTRY
            /\ st[i].built /\ st[i].nattrs = MaxAttrs}

\* LDAPEntry_FromLDAPMessage: the entry built from the i-th message.
LDAPEntry_FromLDAPMessage(stream, i) == [pos |-> i, nattrs |-> stream[i].nattrs]

\* Where the message loop ended: ret is what searching returns, last the
\* last message the loop looked at.
Exit(ret, last) == [ret |-> ret, last |-> last]

\* The message loop without the test that drops entries with no attribute.
RECURSIVE SearchLoop_KeepEmpty(_, _, _, _, _)
SearchLoop_KeepEmpty(stream, i, entrylist, firstonly, failAt) ==
    IF i > Len(stream) THEN Exit(RetList(entrylist), Len(stream))
    ELSE IF stream[i].type = LDAP_RES_SEARCH_ENTRY
    THEN IF ~stream[i].built THEN Exit(Crash, i)
         ELSE IF firstonly = 1 THEN Exit(RetEntry(LDAPEntry_FromLDAPMessage(stream, i)), i)
         ELSE IF failAt = i THEN Exit(Raise("MemoryError"), i)
         ELSE SearchLoop_KeepEmpty(stream, i + 1,
                         Append(entrylist, LDAPEntry_FromLDAPMessage(stream, i)),
                         firstonly, failAt)
    ELSE SearchLoop_KeepEmpty(stream, i + 1, entrylist, firstonly, failAt)

\* The message loop of searching, from message i on, with entrylist built so
\* far.  failAt is the message at which PyList_Append fails (0: never).
\* Reading the attributes of a NULL entry object is a null dereference.
RECURSIVE SearchLoop(_, _, _, _, _)
SearchLoop(stream, i, entrylist, firstonly, failAt) ==
    IF i > Len(stream) THEN Exit(RetList(entrylist), Len(stream))
    ELSE IF stream[i].type = LDAP_RES_SEARCH_ENTRY
    THEN IF ~stream[i].built THEN Exit(Crash, i)
         ELSE IF stream[i].nattrs = 0
         THEN SearchLoop(stream, i + 1, entrylist, firstonly, failAt)
         ELSE IF firstonly = 1 THEN Exit(RetEntry(LDAPEntry_FromLDAPMessage(stream, i)), i)
         ELSE IF failAt = i THEN Exit(Raise("MemoryError"), i)
         ELSE SearchLoop(stream, i + 1,
                         Append(entrylist, LDAPEntry_FromLDAPMessage(stream, i)),
                         firstonly, failAt)
    ELSE SearchLoop(stream, i + 1, entrylist, firstonly, failAt)

\* The time limit handed to ldap_search_ext_s (0: a NULL timeval, no limit).
TimeLimit(timeout, mallocOk) == IF timeout > 0 /\ mallocOk THEN timeout ELSE 0

SearchCall(h, rc, timelimit, sizelimit) ==
    [fn |-> "ldap_search_ext_s", h |-> h, rc |-> rc,
     timelimit |-> timelimit, sizelimit |-> sizelimit]

\* What searching returns for the status rc of ldap_search_ext_s, and the
\* last message it looked at.
SearchStatus(rc, stream, firstonly, failAt) ==
    IF rc = LDAP_NO_SUCH_OBJECT THEN Exit(Ret("null"), 0)
    ELSE IF rc # LDAP_SUCCESS THEN Exit(Raise("LDAPError"), 0)
    ELSE SearchLoop(stream, 1, <<>>, firstonly, failAt)

\* ldap_search_ext_s hands back a message set whenever the server answered,
\* with success or with an error status; not when the server was not reached.
ResAcquired(rc) == IF rc = LDAP_SERVER_DOWN THEN 0 ELSE 1

\* Releases of the result list on the exit that returned ret: Py_DECREF on
\* "no such object", on a search error and on an append failure; none when
\* an entry is returned; the list itself is returned at the end of the loop.
EntryListReleases(ret) == IF ret.kind \in {"null", "error"} THEN 1 ELSE 0

\* free(timelimit) runs on every exit that returns; it releases the timeval
\* when there is one.  A run that dies in the call or in the message loop
\* never gets to it.
TimeLimitReleases(acq, ret) == IF ret.kind = "crash" THEN 0 ELSE acq

\* ldap_msgfree is never called on the response.
ResReleases(acq) == 0

\* The temporaries of a run of searching that got past PyList_New.
SearchTemps(firstonly, timeout, mallocOk, rc, stream, x) ==
    LET tl == IF timeout > 0 /\ mallocOk THEN 1 ELSE 0
    IN  [timelimit |-> Temp(tl, TimeLimitReleases(tl, x.ret), FALSE),
         entrylist |-> Temp(1, EntryListReleases(x.ret), x.ret.kind = "list"),
         res       |-> Temp(ResAcquired(rc), ResReleases(ResAcquired(rc)), FALSE),
         built     |-> {j \in 1..x.last : stream[j].type = LDAP_RES_SEARCH_ENTRY}]

\* searching(self, base, scope, filter, attrs, attrsonly, firstonly, timeout,
\* sizelimit): [ret, calls].  listOk: PyList_New succeeded; mallocOk: malloc
\* of the timeval succeeded.
searching(h, firstonly, timeout, sizelimit, listOk, mallocOk, rc, stream, failAt) ==
    IF ~listOk
    THEN [ret |-> Raise("MemoryError"), calls |-> <<>>, temps |-> NoTemps]
    ELSE LET x == SearchStatus(rc, stream, firstonly, failAt)
         IN  [ret |-> x.ret,
              calls |-> <<SearchCall(h, rc, TimeLimit(timeout, mallocOk), sizelimit)>>,
              temps |-> SearchTemps(firstonly, timeout, mallocOk, rc, stream, x)]

\* The inputs of one run of searching that can change its outcome: a stream
\* only with LDAP_SUCCESS, a PyList_Append failure only at a message that is
\* appended.
SearchInputs(S, firstonly) ==
    {x \in [rc : SearchRC, stream : S, failAt : 0..MaxMsgs] :
        /\ x.rc # LDAP_SUCCESS => x.stream = <<>>
        /\ x.failAt # 0 =>
              /\ firstonly = 0
              /\ x.failAt <= Len(x.stream)
              /\ SearchLoop(x.stream, 1, <<>>, 0, x.failAt).ret.kind = "error"}

\* What LDAPClient_GetEntry makes of the value searching returned: Py_None
\* for every NULL, with the exception searching set still pending.
GetEntryResult(entry) ==
    IF entry.kind \in {"null", "error"} THEN [PyNone EXCEPT !.exc = entry.exc] ELSE entry

\* What the caller of searching hands on: LDAPClient_GetEntry its mapping,
\* LDAPClient_GetRootDSE and LDAPClient_Search the value itself.
Returned(op, ret) == IF op = "getEntry" THEN GetEntryResult(ret) ELSE ret

\* The part common to the three callers of searching; in0 holds what the
\* caller passed.
RunSearch(op, X, in0, firstonly, timeout, sizelimit) ==
    \/ LET r == searching(ld, firstonly, timeout, sizelimit, FALSE, TRUE,
                          LDAP_SUCCESS, <<>>, 0)
       IN  /\ RecordT(op, [in0 EXCEPT !.timeout = timeout, !.sizelimit = sizelimit],
                      r.calls, Returned(op, r.ret), r.temps)
           /\ phase' = PhaseAfter(op, Returned(op, r.ret), phase)
    \/ \E x \in X, mallocOk \in BOOLEAN :
         LET r == searching(ld, firstonly, timeout, sizelimit, TRUE, mallocOk,
                            x.rc, x.stream, x.failAt)
             in == [in0 EXCEPT !.rc = x.rc, !.stream = x.stream,
                               !.timeout = timeout, !.sizelimit = sizelimit,
                               !.failAt = x.failAt]
         IN  /\ timeout <= 0 => mallocOk
             /\ \/ /\ RecordT(op, in, r.calls, Returned(op, r.ret), r.temps)
                   /\ phase' = IF r.ret.kind = "crash" THEN "crashed"
                               ELSE PhaseAfter(op, Returned(op, r.ret), phase)
                \/ StaleAbortT(op, in, "ldap_search_ext_s",
                               SearchTemps(firstonly, timeout, mallocOk, LDAP_SERVER_DOWN,
                                           <<>>, Exit(Crash, 0)))

NotConnected(op, arg) ==
    /\ connected = 0
    /\ Record(op, [NoInput EXCEPT !.arg = arg], <<>>, Raise("NotConnected"))
    /\ UNCHANGED phase

\* LDAPClient_GetEntry(dn): the connection is checked before the arguments
\* (args and kwds) are parsed.  A NULL from searching becomes None, whatever
\* exception is set.
GetEntry(X, D) ==
    /\ Live
    /\ \/ NotConnected("getEntry", "")
       \/ /\ connected # 0
          /\ \/ /\ Record("getEntry", [NoInput EXCEPT !.arg = "unparsable"], <<>>,
                         Raise("AttributeError"))
                /\ UNCHANGED phase
             \/ \E dnstr \in D, kwds \in Kwds \ {"null"} :
                  BadKwds("getEntry", [NoInput EXCEPT !.arg = dnstr, !.kwds = kwds], kwds)
             \/ \E dnstr \in D :
                  RunSearch("getEntry", X, [NoInput EXCEPT !.arg = dnstr], 1, 0, 0)
    /\ UNCHANGED <<uri, ld, connected, tls, nhandles, released>>

\* LDAPClient_GetRootDSE
GetRootDSE(X) ==
    /\ Live
    /\ \/ NotConnected("getRootDSE", "")
       \/ /\ connected # 0
          /\ RunSearch("getRootDSE", X, NoInput, 1, 0, 0)
    /\ UNCHANGED <<uri, ld, connected, tls, nhandles, released>>

\* The timeout values a caller passes (or an unset int holds).
Timeouts == {0 - 1, 0, 5}
\* The sizelimit values a caller passes (or an unset int holds).
SizeLimits == {0, 10}

\* How search is called: "given" with timeout and sizelimit and without
\* attrsonly, "omitted" without the three, "attrsonly" with all three.
SearchModes == {"given", "omitted", "attrsonly"}

\* A run of searching that dies inside ldap_search_ext_s, on an argument
\* that is no longer what the caller passed: the result list and the timeval
\* (when there is one) are held and never released, no response came back.
DiesInSearchCall(op, in, timeout, sizelimit) ==
    \E mallocOk \in BOOLEAN :
        /\ timeout <= 0 => mallocOk
        /\ RecordT(op, [in EXCEPT !.timeout = timeout, !.sizelimit = sizelimit],
                   <<SearchCall(ld, LDAP_SERVER_DOWN, TimeLimit(timeout, mallocOk), sizelimit)>>,
                   Crash,
                   SearchTemps(0, timeout, mallocOk, LDAP_SERVER_DOWN, <<>>, Exit(Crash, 0)))
        /\ phase' = "crashed"

\* LDAPClient_Search(base, scope, filter, attrlist, timeout, sizelimit,
\* attrsonly).  timeout and sizelimit are optional and have no initial
\* value: omitted, searching gets whatever the ints hold.  An attrsonly
\* argument is stored as a pointer through the address of an int ("O!" with
\* &attrsonly): the store runs over the neighbouring locals, so searching
\* gets whatever they then hold and runs on, or the process dies: inside
\* ldap_search_ext_s with the temporaries of searching held, or before
\* searching is entered.
Search(X, G, T, Z) ==
    /\ Live
    /\ \/ NotConnected("search", "")
       \/ /\ connected # 0
          /\ \/ /\ Record("search", [NoInput EXCEPT !.arg = "unparsable"], <<>>,
                         Raise("AttributeError"))
                /\ UNCHANGED phase
             \/ \E mode \in G, timeout \in T, sizelimit \in Z :
                  \E tgiven \in IF mode = "given" THEN {timeout}
                                 ELSE IF mode = "omitted" THEN {0} ELSE T,
                     zgiven \in IF mode = "given" THEN {sizelimit}
                                 ELSE IF mode = "omitted" THEN {0} ELSE Z :
                    LET in0 == [NoInput EXCEPT !.arg = mode, !.tgiven = tgiven,
                                               !.zgiven = zgiven]
                    IN  \/ RunSearch("search", X, in0, 0, timeout, sizelimit)
                        \/ /\ mode = "attrsonly"
                           /\ DiesInSearchCall("search", in0, timeout, sizelimit)
                        \/ /\ mode = "attrsonly"
                           /\ timeout = tgiven /\ sizelimit = zgiven
                           /\ Record("search", in0, <<>>, Crash)
                           /\ phase' = "crashed"
    /\ UNCHANGED <<uri, ld, connected, tls, nhandles, released>>

\* The limits tried within a whole session's life.
SessionTimeouts == {0}
SessionSizeLimits == {0}

SessionFirst == SearchInputs(SessionStreams, 1)
SessionAll == SearchInputs(SessionStreams, 0)

\* The DN tried within a whole session's life.
SessionDNs == {"cn=a,dc=x"}

LDAPClient_GetEntry == GetEntry(SessionFirst, SessionDNs)
LDAPClient_GetRootDSE == GetRootDSE(SessionFirst)
LDAPClient_Search == Search(SessionAll, {"given"}, SessionTimeouts, SessionSizeLimits)
LDAPClient_DelEntry == DelEntry(SessionDNs)

(* ------------------------------- whoami ------------------------------- *)

\* authzid when ldap_whoami_s stored no berval: on every failure, and on a
\* success whose response carries no value.
NoAuthzId == "<null>"

\* The authorization identities ldap_whoami_s hands back.
AuthzIds == {NoAuthzId, "", "dn:cn=admin,dc=x"}

\* The string LDAPClient_Whoami returns for the server's identity.
WhoamiString(authzid) == IF authzid = "" THEN "anonym" ELSE authzid

\* LDAPClient_Whoami, the server's identity among A.  The length of the
\* identity is read through authzid without a test for NULL.
Whoami(A) ==
    /\ Live
    /\ \/ NotConnected("whoAmI", "")
       \/ /\ connected # 0
          /\ \E rc \in RC, authzid \in A :
               LET in == [NoInput EXCEPT !.rc = rc, !.arg = authzid]
                   cs == <<Call("ldap_whoami_s", ld, rc)>>
               IN  /\ rc # LDAP_SUCCESS => authzid = NoAuthzId
                   /\ \/ /\ rc # LDAP_SUCCESS
                         /\ Record("whoAmI", in, cs, Raise("LDAPError"))
                         /\ UNCHANGED phase
                      \/ /\ rc = LDAP_SUCCESS /\ authzid = NoAuthzId
                         /\ Record("whoAmI", in, cs, Crash)
                         /\ phase' = "crashed"
                      \/ /\ rc = LDAP_SUCCESS /\ authzid # NoAuthzId
                         /\ Record("whoAmI", in, cs, RetStr(WhoamiString(authzid)))
                         /\ UNCHANGED phase
                      \/ StaleAbort("whoAmI", in, "ldap_whoami_s")
    /\ UNCHANGED <<uri, ld, connected, tls, nhandles, released>>

\* The identities tried within a whole session's life.
SessionAuthzIds == {NoAuthzId, ""}

LDAPClient_Whoami == Whoami(SessionAuthzIds)

Next ==
    \/ LDAPClient_init
    \/ LDAPClient_members
    \/ LDAPClient_dealloc
    \/ LDAPClient_Connect
    \/ LDAPClient_Close
    \/ LDAPClient_DelEntry
    \/ LDAPClient_GetEntry
    \/ LDAPClient_GetRootDSE
    \/ LDAPClient_Search
    \/ LDAPClient_Whoami

Spec == Init /\ [][Next]_vars

(* ----------------------- the search pipeline alone -------------------- *)

\* A session right after LDAPClient() and a successful anonymous connect().
InitSearch ==
    /\ phase = "ready"
    /\ uri = "ldap://localhost:389/"
    /\ ld = 1
    /\ connected = 1
    /\ tls = 0
    /\ nhandles = 1
    /\ released = [h \in Handles |-> 0]
    /\ noneRefs = NoneRefs - 1
    /\ lastOp = "connect"
    /\ pre = [uri |-> "ldap://localhost:389/", ld |-> 0, connected |-> 0, tls |-> 0]
    /\ inp = [NoInput EXCEPT !.arg = "NULL"]
    /\ calls = <<Call("ldap_initialize", 1, LDAP_SUCCESS),
                 Call("ldap_set_option", 1, LDAP_SUCCESS),
                 Call("ldap_sasl_bind_s", 1, LDAP_SUCCESS)>>
    /\ temps = NoTemps
    /\ result = PyNone

\* One search operation on that session, over every response up to MaxMsgs.
PipelineFirst == SearchInputs(Streams, 1)
PipelineAll == SearchInputs(Streams, 0)

Pipeline_GetEntry == lastOp = "connect" /\ GetEntry(PipelineFirst, DNs)
Pipeline_GetRootDSE == lastOp = "connect" /\ GetRootDSE(PipelineFirst)
Pipeline_Search ==
    lastOp = "connect" /\ Search(PipelineAll, SearchModes, Timeouts, SizeLimits)
Pipeline_DelEntry == lastOp = "connect" /\ DelEntry(DNs)
Pipeline_Whoami == lastOp = "connect" /\ Whoami(AuthzIds)

NextSearch ==
    \/ Pipeline_GetEntry
    \/ Pipeline_GetRootDSE
    \/ Pipeline_Search
    \/ Pipeline_DelEntry
    \/ Pipeline_Whoami

SpecSearch == InitSearch /\ [][NextSearch]_vars

(* ------------------------------- claims ------------------------------- *)

FacadeOps == {"deleteEntry", "getEntry", "getRootDSE", "search", "whoAmI"}
BindFns == {"ldap_sasl_bind_s", "ldap_sasl_interactive_bind_s"}

\* The entries of a response that a search is to deliver: those built from
\* search-entry messages and holding at least one attribute, in arrival order.
Qualifying(st) ==
    LET I == {i \in 1..Len(st) : st[i].type = LDAP_RES_SEARCH_ENTRY /\ st[i].nattrs > 0}
        at == [k \in 1..Cardinality(I) |->
                 CHOOSE i \in I : Cardinality({j \in I : j < i}) = k - 1]
    IN  [k \in 1..Cardinality(I) |-> [pos |-> at[k], nattrs |-> st[at[k]].nattrs]]

\* C1: in every state of a live session the connection handle is valid
\* (initialized and not released) exactly when connected is true.
C1_HandleValidIffConnected ==
    Live => (HandleValid(ld) <=> connected = 1)

\* C2: every facade operation invoked while connected is false fails with
\* NotConnected, whatever its arguments.
C2_NotConnectedWhenUnconnected ==
    (lastOp \in FacadeOps /\ pre.connected = 0) => result = Raise("NotConnected")

\* C3: after a connect that failed in the StartTLS handshake or in the bind,
\* connected is false, whatever it was before.
C3_FailedConnectUnconnected ==
    (lastOp = "connect" /\ calls # <<>> /\ calls[Len(calls)].rc # LDAP_SUCCESS)
        => connected = 0

\* C4: in a connect of a session whose tls flag is set, a bind request is
\* issued only after a StartTLS handshake that succeeded in the same connect,
\* and a failed handshake is the last call of the connect.
C4_StartTLSBeforeBind ==
    (lastOp = "connect" /\ pre.tls = 1) =>
        \A i \in 1..Len(calls) :
            /\ calls[i].fn \in BindFns =>
                  \E j \in 1..(i - 1) :
                      calls[j].fn = "ldap_start_tls_s" /\ calls[j].rc = LDAP_SUCCESS
            /\ (calls[i].fn = "ldap_start_tls_s" /\ calls[i].rc # LDAP_SUCCESS) =>
                  (i = Len(calls) /\ result = Raise("LDAPError"))

\* C4 witness: a connect with the tls flag set that went on to bind.
C4_Witness ==
    /\ lastOp = "connect" /\ pre.tls = 1
    /\ \E i \in 1..Len(calls) : calls[i].fn \in BindFns

\* C5: every handle the session established is released exactly once: never
\* twice, and once at the latest when the session connects again or is
\* destroyed.
C5_ReleasedExactlyOnce ==
    \A h \in 1..nhandles :
        /\ released[h] <= 1
        /\ (h # ld \/ phase = "destroyed") => released[h] = 1

\* C6: close on a connected session releases the transport and leaves
\* connected false; close on an unconnected session makes no transport call
\* and changes nothing.
C6_CloseReleases ==
    (lastOp = "close" /\ Live) =>
        IF pre.connected = 1
        THEN /\ calls = <<Call("ldap_unbind_ext_s", pre.ld, inp.rc)>>
             /\ connected = 0
        ELSE calls = <<>> /\ Session = pre

\* C7: close is idempotent: on a never-connected session it succeeds without
\* a transport call or a state change, and a close right after a close
\* makes no further transport call and changes nothing.
C7_CloseIdempotent ==
    [][(lastOp' = "close" /\ phase' \in {"new", "ready"}) =>
          /\ nhandles = 0 => (result' = PyNone /\ calls' = <<>> /\ Session' = Session)
          /\ lastOp = "close" => (calls' = <<>> /\ Session' = Session)]_vars

\* C8: a session constructed with an ldaps URI has its tls flag off, whatever
\* flag was requested; the flag stays as construction left it in every later
\* state (only a construction that succeeds changes it), and a connect of a
\* session whose flag is off issues no StartTLS handshake.
C8_LdapsNeverStartTLS ==
    /\ (lastOp = "init" /\ result = PyNone /\ ldap_url_parse(uri) = "ldaps") => tls = 0
    /\ tls # pre.tls => (lastOp = "init" /\ result = PyNone)
    /\ (lastOp = "connect" /\ pre.tls = 0) =>
          \A i \in 1..Len(calls) : calls[i].fn # "ldap_start_tls_s"

\* C8 witness: a session constructed with an ldaps URI and the tls flag
\* requested.
C8_Witness ==
    lastOp = "init" /\ ldap_url_parse(uri) = "ldaps" /\ inp.flag = 1

\* C9: a collect-all search that succeeds returns exactly the response's
\* search entries that have at least one attribute, in arrival order.
C9_CollectAllFiltersInOrder ==
    (lastOp = "search" /\ result.kind = "list") => result.list = Qualifying(inp.stream)

\* C9 witness: three messages arrive, one of them an entry without
\* attributes, and two entries are returned.
C9_Witness ==
    /\ lastOp = "search" /\ result.kind = "list"
    /\ Len(inp.stream) = 3 /\ Len(result.list) = 2
    /\ \E i \in 1..3 : inp.stream[i].type = LDAP_RES_SEARCH_ENTRY /\ inp.stream[i].nattrs = 0

\* C10: getEntry on a connected session returns None when the server reports
\* "no such object" and when the response holds no entry with attributes;
\* when the response holds such an entry it returns a single entry.
C10_GetEntryNoneOrEntry ==
    (/\ lastOp = "getEntry" /\ Live /\ calls # <<>>
     /\ inp.rc \in {LDAP_SUCCESS, LDAP_NO_SUCH_OBJECT}) =>
        IF inp.rc = LDAP_NO_SUCH_OBJECT \/ Qualifying(inp.stream) = <<>>
        THEN result = PyNone
        ELSE result.kind = "entry"

SearchOps == {"search", "getEntry", "getRootDSE"}

\* The operation got as far as ldap_search_ext_s or ldap_delete_ext_s on a
\* live handle and came back.
Answered == Live /\ calls # <<>>

\* C11: when the server reports "no such object", a collect-all search returns
\* an empty result list as a success value, neither an error nor a null, and a
\* first-only search returns the absence of an entry without an error.
C11_NoSuchObjectEmptyResult ==
    (lastOp \in SearchOps /\ Answered /\ inp.rc = LDAP_NO_SUCH_OBJECT) =>
        IF lastOp = "search" THEN result = RetList(<<>>) ELSE result = PyNone

\* C12: when the server reports any status other than success and "no such
\* object", search, getEntry and getRootDSE all fail with the search error;
\* none of them returns a success value.
C12_SearchErrorEveryEntryPoint ==
    (lastOp \in SearchOps /\ Answered /\ inp.rc \notin {LDAP_SUCCESS, LDAP_NO_SUCH_OBJECT}) =>
        result = Raise("LDAPError")

\* C13: deleteEntry on a connected session returns success without a delete
\* request when the DN is the empty string; with a non-empty DN it issues
\* exactly one delete request and fails with the protocol error when the
\* server's status is not success.
C13_DeleteEmptyDNNoRequest ==
    (lastOp = "deleteEntry" /\ pre.connected = 1 /\ Live /\ inp.arg \in DNs) =>
        IF inp.arg = ""
        THEN calls = <<>> /\ result = PyNone
        ELSE /\ Len(calls) = 1 /\ calls[1].fn = "ldap_delete_ext_s"
             /\ result = IF calls[1].rc = LDAP_SUCCESS THEN PyNone ELSE Raise("LDAPError")

\* C14: whoAmI on a connected session returns "anonym" when the server's
\* identity is empty (of length 0, or not there at all), the identity
\* unchanged when it is not empty, and fails with the protocol error when the
\* server's status is not success.
C14_WhoAmIAnonymOrIdentity ==
    (lastOp = "whoAmI" /\ pre.connected = 1) =>
        /\ Len(calls) = 1 /\ calls[1].fn = "ldap_whoami_s"
        /\ IF calls[1].rc # LDAP_SUCCESS THEN result = Raise("LDAPError")
           ELSE IF inp.arg \in {"", NoAuthzId} THEN result = RetStr("anonym")
           ELSE result = RetStr(inp.arg)

\* C15: a first-only search returns the first search entry, in arrival order,
\* that has at least one attribute, and builds no entry from a later message;
\* when the response holds no such entry the result is the "no entry found"
\* value, which is neither an error nor an entry nor a list.
C15_FirstOnlyFirstQualifying ==
    (lastOp \in {"getEntry", "getRootDSE"} /\ Answered /\ inp.rc = LDAP_SUCCESS) =>
        IF Qualifying(inp.stream) # <<>>
        THEN /\ result = RetEntry(Qualifying(inp.stream)[1])
             /\ \A j \in temps.built : j <= result.entry.pos
        ELSE result.kind \notin {"error", "entry", "list"}

\* C16: a connect issues at most one bind request; the bind is the SASL
\* interactive bind when a mechanism was given and the simple bind when none
\* was; and connected turns true only in a connect whose bind returned
\* success.
C16_SingleBindByMechanism ==
    /\ lastOp = "connect" =>
          LET B == {i \in 1..Len(calls) : calls[i].fn \in BindFns}
          IN  /\ Cardinality(B) <= 1
              /\ \A i \in B :
                    calls[i].fn = IF inp.arg = "NULL" THEN "ldap_sasl_bind_s"
                                  ELSE "ldap_sasl_interactive_bind_s"
    /\ (pre.connected = 0 /\ connected = 1) =>
          /\ lastOp = "connect"
          /\ \E i \in 1..Len(calls) : calls[i].fn \in BindFns /\ calls[i].rc = LDAP_SUCCESS

\* C16 witness: a connect with a mechanism whose SASL bind succeeded and
\* turned connected true.
C16_Witness ==
    /\ lastOp = "connect" /\ inp.arg = "DIGEST-MD5"
    /\ pre.connected = 0 /\ connected = 1
    /\ calls[Len(calls)].fn = "ldap_sasl_interactive_bind_s"

\* C17: the search request carries a time limit of exactly T seconds when the
\* caller gave a positive timeout T, and none when the timeout is zero,
\* negative or omitted; it carries the caller's size limit, and 0 when the
\* size limit is omitted.  (Stated for the runs in which the timeval could be
\* allocated.)
C17_LimitsAsGiven ==
    (/\ lastOp = "search" /\ Answered
     /\ ~(inp.timeout > 0 /\ temps.timelimit.acq = 0)) =>
        /\ calls[1].timelimit = IF inp.tgiven > 0 THEN inp.tgiven ELSE 0
        /\ calls[1].sizelimit = inp.zgiven

\* C18: when an entry cannot be built from its message, or cannot be appended
\* to the result list, the search fails with the out-of-memory error, the
\* partial list is released and not returned, and the run does not break on
\* the absent entry before the failure is detected.
C18_ConstructionFailureOutOfMemory ==
    (/\ lastOp = "search" /\ calls # <<>> /\ inp.rc = LDAP_SUCCESS
     /\ \E i \in 1..Len(inp.stream) :
           /\ inp.stream[i].type = LDAP_RES_SEARCH_ENTRY
           /\ ~inp.stream[i].built \/ inp.failAt = i) =>
        /\ Live
        /\ result = Raise("MemoryError")
        /\ temps.entrylist.rel = 1 /\ ~temps.entrylist.returned

\* C19: every temporary of a search call, namely the time-limit buffer, the
\* result list when it is not the value returned, and the server's response
\* message set, is released exactly once on every exit of the call.
C19_TemporariesReleasedOnce ==
    (lastOp \in SearchOps /\ Answered) =>
        \A t \in {"timelimit", "entrylist", "res"} :
            temps[t].acq = 1 =>
                temps[t].rel = IF temps[t].returned THEN 0 ELSE 1

\* C20: an operation that fails with NotConnected makes no transport call
\* and leaves uri, the handle, connected and the tls flag as they were.
C20_NotConnectedNoEffect ==
    (lastOp \in FacadeOps /\ result = Raise("NotConnected")) =>
        calls = <<>> /\ Session = pre

\* C20 witness: deleteEntry failed with NotConnected on a session that had
\* been connected and closed.
C20_Witness ==
    /\ lastOp = "deleteEntry" /\ result = Raise("NotConnected")
    /\ nhandles > 0 /\ inp.arg = "cn=a,dc=x"

====
